---- MODULE Spec2Model ----
(***************************************************************************)
(* A model of the LLDP agent of this repository: the TLV variants'         *)
(* encoders and decoders (src/lldp/tlv/*.py), the LLDPDU container         *)
(* (src/lldp/lldpdu.py) and the agent loop (src/lldp/agent.py).            *)
(*                                                                         *)
(* Bytes are sequences of numbers 0..255.  A Python str is a sequence of   *)
(* code points; str.encode() is utf8 below.  A call that raises yields a   *)
(* record with err /= "none"; err names the Python exception.              *)
(*                                                                         *)
(* Seven specifications share the module:                                 *)
(*   Spec       the LLDPDU container under append() and complete()         *)
(*   SpecSize   the same, of an LLDPDU close to the 1500-byte limit        *)
(*   SpecParse  LLDPDU.from_bytes(), one action per pass of its loop       *)
(*   SpecAgent  LLDPAgent.run()                                            *)
(*   SpecAgentLive  the same, with a loop that keeps running               *)
(*   SpecCodec  bytes(tlv) and TLV.from_bytes() of one TLV                 *)
(*   SpecDecode a variant's from_bytes() or constructor, then bytes()      *)
(***************************************************************************)
EXTENDS Integers, Sequences, FiniteSets, TLC

VARIABLES
    \* ---- the LLDPDU container (Spec)
    tlvs,        \* LLDPDU.__tlvs
    pre,         \* __tlvs as it was when the last operation was called
    op,          \* the last operation: "init", "append", "complete"
    arg,         \* the TLV given to the last append
    result,      \* the last append's outcome: "none" or the exception raised
    ret,         \* the last complete()'s return value
    nAppends,    \* successful appends since construction
    \* ---- LLDPDU.from_bytes (SpecParse)
    data,        \* the argument
    currentID,   \* the parse offset
    ptlvs,       \* the local list tlvs of decoded TLVs
    notEnd,      \* the loop flag
    ppc,         \* "idle", "loop", "construct", "done"
    pres,        \* the call's outcome: [err, tlvs]
    iters,       \* passes of the loop made so far
    \* ---- LLDPAgent.run (SpecAgent)
    apc,         \* "idle", "loop", "select", "announce", "done", "raised"
    run_once,    \* the argument of run()
    received,    \* the local received
    t_previous,  \* the local t_previous
    now,         \* the clock time.time() reads
    sockOpen,    \* whether self.socket is open
    frame,       \* the frame last read from the socket, <<>> if none
    handed,      \* the frames whose payload was given to LLDPDU.from_bytes
    parsed,      \* the byte strings given to LLDPDU.from_bytes
    log,         \* what was given to self.logger.log
    sent,        \* the frames given to self.socket.send
    exc,         \* the exception run() ended with, "none" if none
    \* ---- bytes(tlv) and TLV.from_bytes (SpecCodec)
    ctlv,        \* the TLV under conversion
    cenc,        \* the outcome of bytes(ctlv): [err, bytes]
    cdec,        \* the outcome of TLV.from_bytes(bytes(ctlv)): [err, tlv]
    kpc,         \* "idle", "made", "encoded", "decoded"
    \* ---- a variant's constructor or from_bytes, then bytes() (SpecDecode)
    dkind,       \* "idle", "bytes" (from_bytes is called) or "args"
    dvariant,    \* the type code of the variant called
    dbytes,      \* the bytes given to from_bytes
    dargs,       \* the arguments given to the constructor
    ddec,        \* the outcome of the call: [err, tlv]
    denc,        \* the outcome of bytes() of the TLV made: [err, bytes]
    dpc          \* "idle", "start", "made", "encoded"

cvars == <<tlvs, pre, op, arg, result, ret, nAppends>>
pvars == <<data, currentID, ptlvs, notEnd, ppc, pres, iters>>
avars == <<apc, run_once, received, t_previous, now, sockOpen, frame, handed,
           parsed, log, sent, exc>>
kvars == <<ctlv, cenc, cdec, kpc>>
dvars == <<dkind, dvariant, dbytes, dargs, ddec, denc, dpc>>
vars == <<cvars, pvars, avars, kvars, dvars>>

----------------------------------------------------------------------------
(* Python primitives *)

Byte == 0..255

\* seq[a:b] for 0 <= a (Python slices clip to the sequence, never raise)
Slice(s, a, b) ==
    LET hi == IF b > Len(s) THEN Len(s) ELSE b
    IN  IF a >= hi THEN <<>> ELSE SubSeq(s, a + 1, hi)

\* seq[a:]
SliceFrom(s, a) == Slice(s, a, Len(s))

\* int.to_bytes(n, 'big') of a non-negative number that fits
RECURSIVE to_bytes(_, _)
to_bytes(v, n) ==
    IF n = 0 THEN <<>> ELSE Append(to_bytes(v \div 256, n - 1), v % 256)

\* int.from_bytes(b, 'big', signed=False)
RECURSIVE int_from_bytes(_)
int_from_bytes(b) ==
    IF Len(b) = 0 THEN 0
    ELSE 256 * int_from_bytes(SubSeq(b, 1, Len(b) - 1)) + b[Len(b)]

\* str.encode() of one code point (no surrogate)
utf8char(c) ==
    IF c < 128 THEN <<c>>
    ELSE IF c < 2048 THEN <<192 + (c \div 64), 128 + (c % 64)>>
    ELSE IF c < 65536
    THEN <<224 + (c \div 4096), 128 + ((c \div 64) % 64), 128 + (c % 64)>>
    ELSE <<240 + (c \div 262144), 128 + ((c \div 4096) % 64),
           128 + ((c \div 64) % 64), 128 + (c % 64)>>

\* str.encode(): UTF-8
RECURSIVE utf8(_)
utf8(s) ==
    IF Len(s) = 0 THEN <<>>
    ELSE IF Len(s) = 1 THEN utf8char(s[1])
    ELSE LET h == Len(s) \div 2
         IN  utf8(SubSeq(s, 1, h)) \o utf8(SubSeq(s, h + 1, Len(s)))

\* a UTF-8 continuation byte
Cont(b) == b >= 128 /\ b <= 191

\* the length of the well-formed UTF-8 sequence that starts b, 0 if none does
utf8_first(b) ==
    IF Len(b) = 0 THEN 0
    ELSE IF b[1] < 128 THEN 1
    ELSE IF b[1] >= 194 /\ b[1] <= 223
    THEN (IF Len(b) >= 2 /\ Cont(b[2]) THEN 2 ELSE 0)
    ELSE IF b[1] >= 224 /\ b[1] <= 239
    THEN (IF /\ Len(b) >= 3 /\ Cont(b[2]) /\ Cont(b[3])
             /\ (b[1] = 224 => b[2] >= 160)
             /\ (b[1] = 237 => b[2] <= 159)
          THEN 3 ELSE 0)
    ELSE IF b[1] >= 240 /\ b[1] <= 244
    THEN (IF /\ Len(b) >= 4 /\ Cont(b[2]) /\ Cont(b[3]) /\ Cont(b[4])
             /\ (b[1] = 240 => b[2] >= 144)
             /\ (b[1] = 244 => b[2] <= 143)
          THEN 4 ELSE 0)
    ELSE 0

\* the code point of a well-formed UTF-8 sequence of n bytes
utf8_point(b, n) ==
    IF n = 1 THEN b[1]
    ELSE IF n = 2 THEN (b[1] - 192) * 64 + (b[2] - 128)
    ELSE IF n = 3
    THEN (b[1] - 224) * 4096 + (b[2] - 128) * 64 + (b[3] - 128)
    ELSE (b[1] - 240) * 262144 + (b[2] - 128) * 4096 + (b[3] - 128) * 64
         + (b[4] - 128)

\* the number of bytes below 128 that b starts with
AsciiRun(b) ==
    IF \A i \in 1..Len(b) : b[i] < 128 THEN Len(b)
    ELSE (CHOOSE i \in 1..Len(b) :
              b[i] >= 128 /\ \A j \in 1..(i - 1) : b[j] < 128) - 1

\* bytes.decode(): [err, str]; UnicodeDecodeError on ill-formed UTF-8.  A
\* run of bytes below 128 is its own decoding.
RECURSIVE utf8_decode(_)
utf8_decode(b) ==
    LET k == AsciiRun(b)
        t == SubSeq(b, k + 1, Len(b))
        n == utf8_first(t)
    IN  IF k = Len(b) THEN [err |-> "none", str |-> b]
        ELSE IF n = 0 THEN [err |-> "UnicodeDecodeError", str |-> <<>>]
        ELSE LET rest == utf8_decode(SubSeq(t, n + 1, Len(t)))
             IN  IF rest.err /= "none" THEN rest
                 ELSE [err |-> "none",
                       str |-> SubSeq(b, 1, k) \o <<utf8_point(t, n)>>
                               \o rest.str]

\* bytes([n]): ValueError unless 0 <= n < 256
ByteOk(n) == n >= 0 /\ n < 256

Ok(b) == [err |-> "none", bytes |-> b]
Raise(e) == [err |-> e, bytes |-> <<>>]

----------------------------------------------------------------------------
(* TLV.Type *)

END_OF_LLDPDU == 0
CHASSIS_ID == 1
PORT_ID == 2
TTL == 3
PORT_DESCRIPTION == 4
SYSTEM_NAME == 5
SYSTEM_DESCRIPTION == 6
SYSTEM_CAPABILITIES == 7
MANAGEMENT_ADDRESS == 8
ORGANIZATIONALLY_SPECIFIC == 127

(* A subtype attribute holds either a member of the variant's IntEnum      *)
(* (which has .value) or a plain int (which has not); both compare equal   *)
(* to the number.                                                          *)
EnumMember(v) == [enum |-> TRUE, value |-> v]
PlainInt(v) == [enum |-> FALSE, value |-> v]

ChassisId_MAC_ADDRESS == 4
ChassisId_NETWORK_ADDRESS == 5
PortId_MAC_ADDRESS == 3
PortId_NETWORK_ADDRESS == 4
PortId_INTERFACE_NAME == 5

\* an ipaddress object: .version and .packed
IPAddress(version, packed) == [version |-> version, packed |-> packed]

----------------------------------------------------------------------------
(* The TLV variants: constructors, __len__ and __bytes__ *)

EndOfLLDPDUTLV == [type |-> END_OF_LLDPDU]

EndOfLLDPDUTLV_bytes(tlv) == Ok(<<0, 0>>)

ChassisIdTLV(subtype, id) ==
    [type |-> CHASSIS_ID, subtype |-> subtype, value |-> id]

ChassisIdTLV_len(tlv) ==
    IF tlv.subtype.value = ChassisId_MAC_ADDRESS THEN Len(tlv.value) + 1
    ELSE IF tlv.subtype.value = ChassisId_NETWORK_ADDRESS
    THEN Len(tlv.value.packed) + 2
    ELSE Len(utf8(tlv.value)) + 1

ChassisIdTLV_bytes(tlv) ==
    LET firstByteInt == CHASSIS_ID * 2
        secondByteInt == ChassisIdTLV_len(tlv)
    IN  IF ~ByteOk(secondByteInt) THEN Raise("ValueError")
        ELSE IF ~tlv.subtype.enum THEN Raise("AttributeError")
        ELSE Ok(<<firstByteInt, secondByteInt, tlv.subtype.value>> \o
                (IF tlv.subtype.value = ChassisId_MAC_ADDRESS THEN tlv.value
                 ELSE IF tlv.subtype.value = ChassisId_NETWORK_ADDRESS
                 THEN (IF tlv.value.version = 4 THEN <<1>> ELSE <<2>>)
                      \o tlv.value.packed
                 ELSE utf8(tlv.value)))

PortIdTLV(subtype, id) ==
    [type |-> PORT_ID, subtype |-> subtype, value |-> id]

PortIdTLV_len(tlv) ==
    IF tlv.subtype.value = PortId_MAC_ADDRESS THEN Len(tlv.value) + 1
    ELSE IF tlv.subtype.value = PortId_NETWORK_ADDRESS
    THEN Len(tlv.value.packed) + 2
    ELSE Len(utf8(tlv.value)) + 1

PortIdTLV_bytes(tlv) ==
    LET firstByteInt == PORT_ID * 2 + (PortIdTLV_len(tlv) \div 128)
        secondByteInt == PortIdTLV_len(tlv)
    IN  IF ~ByteOk(firstByteInt) \/ ~ByteOk(secondByteInt)
        THEN Raise("ValueError")
        ELSE Ok(<<firstByteInt, secondByteInt, tlv.subtype.value>> \o
                (IF tlv.subtype.value = PortId_NETWORK_ADDRESS
                 THEN (IF tlv.value.version = 4 THEN <<1>> ELSE <<2>>)
                      \o tlv.value.packed
                 ELSE IF tlv.subtype.value = PortId_MAC_ADDRESS THEN tlv.value
                 ELSE utf8(tlv.value)))

\* TTLTLV(ttl), for 0 <= ttl <= 65535 (the constructor raises otherwise)
TTLTLV(ttl) == [type |-> TTL, value |-> ttl]

TTLTLV_len(tlv) == 2

TTLTLV_bytes(tlv) ==
    LET firstByteInt == TTL * 2 + (TTLTLV_len(tlv) \div 128)
        secondByteInt == TTLTLV_len(tlv)
    IN  Ok(<<firstByteInt, secondByteInt>> \o to_bytes(tlv.value, 2))

PortDescriptionTLV(description) ==
    [type |-> PORT_DESCRIPTION, value |-> description]

SystemDescriptionTLV(description) ==
    [type |-> SYSTEM_DESCRIPTION, value |-> description]

SystemNameTLV(name) == [type |-> SYSTEM_NAME, value |-> name]

\* __len__ of the three string TLVs
StringTLV_len(tlv) == Len(utf8(tlv.value))

PortDescriptionTLV_bytes(tlv) ==
    LET firstByteInt == PORT_DESCRIPTION * 2 + (StringTLV_len(tlv) \div 128)
        secondByteInt == StringTLV_len(tlv)
    IN  IF ~ByteOk(firstByteInt) \/ ~ByteOk(secondByteInt)
        THEN Raise("ValueError")
        ELSE Ok(<<firstByteInt, secondByteInt>> \o utf8(tlv.value))

SystemDescriptionTLV_bytes(tlv) ==
    LET firstByteInt == SYSTEM_DESCRIPTION * 2 + (StringTLV_len(tlv) \div 128)
        secondByteInt == StringTLV_len(tlv)
    IN  IF ~ByteOk(firstByteInt) \/ ~ByteOk(secondByteInt)
        THEN Raise("ValueError")
        ELSE Ok(<<firstByteInt, secondByteInt>> \o utf8(tlv.value))

SystemNameTLV_bytes(tlv) ==
    LET firstByteInt == SYSTEM_NAME * 2
        secondByteInt == StringTLV_len(tlv)
    IN  IF ~ByteOk(secondByteInt) THEN Raise("ValueError")
        ELSE Ok(<<firstByteInt, secondByteInt>> \o utf8(tlv.value))

\* OrganizationallySpecificTLV(oui, subtype, value) with value given as bytes
OrganizationallySpecificTLV(oui, subtype, value) ==
    [type |-> ORGANIZATIONALLY_SPECIFIC, oui |-> oui, subtype |-> subtype,
     value |-> value]

OrganizationallySpecificTLV_len(tlv) == Len(tlv.value) + 4

OrganizationallySpecificTLV_bytes(tlv) ==
    LET firstByteInt == ORGANIZATIONALLY_SPECIFIC * 2
                        + (OrganizationallySpecificTLV_len(tlv) \div 128)
        secondByteInt == OrganizationallySpecificTLV_len(tlv)
    IN  IF ~ByteOk(firstByteInt) \/ ~ByteOk(secondByteInt)
        THEN Raise("ValueError")
        ELSE Ok(<<firstByteInt, secondByteInt>> \o tlv.oui \o tlv.subtype
                \o tlv.value)

\* a == (a & b) of two bitmaps below 2^16
BitSubset(a, b) ==
    \A k \in 0..15 : (a \div (2 ^ k)) % 2 = 1 => (b \div (2 ^ k)) % 2 = 1

\* a faulty supports(): every bitmap counts as supported
supports_any(self, capabilities) == TRUE

\* SystemCapabilitiesTLV.supports(capabilities)
supports(self, capabilities) == BitSubset(capabilities, self.supported_int)

\* SystemCapabilitiesTLV(supported, enabled), of two bitmaps below 2^16:
\* [err, tlv].  self.value is (supported << 16) + enabled, a 32-bit number
\* kept here as its two halves supported_int and enabled_int.
SystemCapabilitiesTLV(supported, enabled) ==
    LET self == [type |-> SYSTEM_CAPABILITIES,
                 supported_int |-> supported, enabled_int |-> enabled]
    IN  IF ~supports(self, enabled) THEN [err |-> "ValueError", tlv |-> self]
        ELSE [err |-> "none", tlv |-> self]

SystemCapabilitiesTLV_len(tlv) == 4

\* self.value.to_bytes(4, 'big'): the two halves, two bytes each
SystemCapabilitiesTLV_bytes(tlv) ==
    LET firstByteInt == SYSTEM_CAPABILITIES * 2
        secondByteInt == SystemCapabilitiesTLV_len(tlv)
    IN  Ok(<<firstByteInt, secondByteInt>> \o to_bytes(tlv.supported_int, 2)
           \o to_bytes(tlv.enabled_int, 2))

\* an attribute that is None or bytes
None == [none |-> TRUE, bytes |-> <<>>]
Some(b) == [none |-> FALSE, bytes |-> b]

\* an interface number: an int (below 2^31 here), or the bytearray the
\* decoder leaves there
IntNumber(n) == [isint |-> TRUE, n |-> n, b |-> <<>>]
RawNumber(b) == [isint |-> FALSE, n |-> 0, b |-> b]

ManagementAddressTLV(address, interface_number, ifsubtype, oid) ==
    [type |-> MANAGEMENT_ADDRESS, subtype |-> ifsubtype, value |-> address,
     oid |-> oid, ifnmbr |-> interface_number]

\* a faulty __len__: a constant per address family
ManagementAddressTLV_len_family(tlv) ==
    IF tlv.value.version = 4 THEN 12 ELSE 24

ManagementAddressTLV_len(tlv) ==
    LET oidlength == IF tlv.oid.none THEN 0 ELSE Len(tlv.oid.bytes)
    IN  IF tlv.value.version = 4 THEN 12 + oidlength ELSE 24 + oidlength

ManagementAddressTLV_bytes(tlv) ==
    LET firstByteInt == MANAGEMENT_ADDRESS * 2
        secondByteInt == ManagementAddressTLV_len(tlv)
    IN  IF ~ByteOk(secondByteInt) THEN Raise("ValueError")
        ELSE IF ~ByteOk(tlv.subtype.value) THEN Raise("ValueError")
        ELSE IF ~tlv.ifnmbr.isint THEN Raise("AttributeError")
        ELSE IF tlv.ifnmbr.n < 0 THEN Raise("OverflowError")
        ELSE Ok(<<firstByteInt, secondByteInt, Len(tlv.value.packed) + 1,
                  IF tlv.value.version = 4 THEN 1 ELSE 2>>
                \o tlv.value.packed
                \o <<tlv.subtype.value>>
                \o to_bytes(tlv.ifnmbr.n, 4)
                \o (IF tlv.oid.none THEN <<0>>
                    ELSE <<Len(tlv.oid.bytes)>> \o tlv.oid.bytes))

\* len(tlv) of an EndOfLLDPDU TLV: it has no payload
EndOfLLDPDUTLV_len(tlv) == 0

\* len(tlv): Python dispatches on the TLV's class
len_of(tlv) ==
    CASE tlv.type = END_OF_LLDPDU -> EndOfLLDPDUTLV_len(tlv)
      [] tlv.type = CHASSIS_ID -> ChassisIdTLV_len(tlv)
      [] tlv.type = PORT_ID -> PortIdTLV_len(tlv)
      [] tlv.type = TTL -> TTLTLV_len(tlv)
      [] tlv.type \in {PORT_DESCRIPTION, SYSTEM_NAME, SYSTEM_DESCRIPTION} ->
            StringTLV_len(tlv)
      [] tlv.type = SYSTEM_CAPABILITIES -> SystemCapabilitiesTLV_len(tlv)
      [] tlv.type = MANAGEMENT_ADDRESS -> ManagementAddressTLV_len(tlv)
      [] tlv.type = ORGANIZATIONALLY_SPECIFIC ->
            OrganizationallySpecificTLV_len(tlv)

\* bytes(tlv): Python dispatches on the TLV's class
bytes_of(tlv) ==
    CASE tlv.type = END_OF_LLDPDU -> EndOfLLDPDUTLV_bytes(tlv)
      [] tlv.type = CHASSIS_ID -> ChassisIdTLV_bytes(tlv)
      [] tlv.type = PORT_ID -> PortIdTLV_bytes(tlv)
      [] tlv.type = TTL -> TTLTLV_bytes(tlv)
      [] tlv.type = PORT_DESCRIPTION -> PortDescriptionTLV_bytes(tlv)
      [] tlv.type = SYSTEM_NAME -> SystemNameTLV_bytes(tlv)
      [] tlv.type = SYSTEM_DESCRIPTION -> SystemDescriptionTLV_bytes(tlv)
      [] tlv.type = SYSTEM_CAPABILITIES -> SystemCapabilitiesTLV_bytes(tlv)
      [] tlv.type = MANAGEMENT_ADDRESS -> ManagementAddressTLV_bytes(tlv)
      [] tlv.type = ORGANIZATIONALLY_SPECIFIC ->
            OrganizationallySpecificTLV_bytes(tlv)

----------------------------------------------------------------------------
(* The TLV variants: from_bytes.  Each yields [err, tlv]. *)

Decoded(tlv) == [err |-> "none", tlv |-> tlv]
Failed(e) == [err |-> e, tlv |-> [type |-> -1]]

\* the type code a decoder reads: work_data[0] >> 1
HeaderType(d) == d[1] \div 2

\* ip_address(addr2Str(iptype, data)): addr2Str writes the bytes as dotted
\* decimals when iptype is 1 and else as colon-separated hexadecimal groups
\* of two bytes (an odd last byte is dropped); ip_address accepts four
\* decimals as IPv4 and eight groups as IPv6, and raises ValueError otherwise
ip_from_addr2Str(iptype, d) ==
    IF iptype = 1
    THEN (IF Len(d) = 4 THEN [err |-> "none", ip |-> IPAddress(4, d)]
          ELSE [err |-> "ValueError", ip |-> IPAddress(0, <<>>)])
    ELSE (IF Len(d) \div 2 = 8
          THEN [err |-> "none", ip |-> IPAddress(6, SubSeq(d, 1, 16))]
          ELSE [err |-> "ValueError", ip |-> IPAddress(0, <<>>)])

\* EndOfLLDPDUTLV.from_bytes: the type is 0 and the length is 0
EndOfLLDPDUTLV_from_bytes(d) ==
    IF Len(d) < 2 THEN Failed("IndexError")
    ELSE IF HeaderType(d) /= END_OF_LLDPDU THEN Failed("ValueError")
    ELSE IF (d[1] % 2) * 256 + d[2] /= 0 THEN Failed("ValueError")
    ELSE Decoded(EndOfLLDPDUTLV)

ChassisIdTLV_from_bytes(d) ==
    IF Len(d) < 1 THEN Failed("IndexError")
    ELSE IF HeaderType(d) /= 1 THEN Failed("ValueError")
    ELSE IF Len(d) < 3 THEN Failed("IndexError")
    ELSE LET subtype == d[3]
         IN  IF ~(0 < subtype /\ subtype < 8) THEN Failed("ValueError")
             ELSE IF subtype = ChassisId_MAC_ADDRESS
             THEN Decoded(ChassisIdTLV(PlainInt(subtype), SliceFrom(d, 3)))
             ELSE IF subtype = ChassisId_NETWORK_ADDRESS
             \* ip_address(bytearray) raises: a bytearray is no address
             THEN Failed("ValueError")
             ELSE LET value == utf8_decode(SliceFrom(d, 3))
                  IN  IF value.err /= "none" THEN Failed(value.err)
                      ELSE Decoded(ChassisIdTLV(PlainInt(subtype), value.str))

PortIdTLV_from_bytes(d) ==
    IF Len(d) < 1 THEN Failed("IndexError")
    ELSE IF HeaderType(d) /= 2 THEN Failed("ValueError")
    ELSE IF Len(d) < 3 THEN Failed("IndexError")
    ELSE LET subtype == d[3]
         IN  IF ~(0 < subtype /\ subtype < 8) THEN Failed("ValueError")
             ELSE IF subtype = PortId_MAC_ADDRESS
             THEN Decoded(PortIdTLV(PlainInt(subtype), SliceFrom(d, 3)))
             ELSE IF subtype = PortId_NETWORK_ADDRESS
             THEN (IF Len(d) < 4 THEN Failed("IndexError")
                   ELSE LET a == ip_from_addr2Str(d[4], SliceFrom(d, 4))
                        IN  IF a.err /= "none" THEN Failed(a.err)
                            ELSE Decoded(PortIdTLV(PlainInt(subtype), a.ip)))
             ELSE LET value == utf8_decode(SliceFrom(d, 3))
                  IN  IF value.err /= "none" THEN Failed(value.err)
                      ELSE Decoded(PortIdTLV(PlainInt(subtype), value.str))

TTLTLV_from_bytes(d) ==
    IF Len(d) /= 4 THEN Failed("ValueError")
    ELSE IF HeaderType(d) /= 3 THEN Failed("ValueError")
    ELSE IF (d[1] % 2) * 512 + d[2] /= 2 THEN Failed("ValueError")
    ELSE Decoded(TTLTLV(int_from_bytes(SliceFrom(d, 2))))

\* from_bytes of the three string TLVs, of type code t
StringTLV_from_bytes(d, t) ==
    IF Len(d) < 1 THEN Failed("IndexError")
    ELSE IF HeaderType(d) /= t THEN Failed("ValueError")
    ELSE LET value == utf8_decode(SliceFrom(d, 2))
         IN  IF value.err /= "none" THEN Failed(value.err)
             ELSE Decoded([type |-> t, value |-> value.str])

PortDescriptionTLV_from_bytes(d) == StringTLV_from_bytes(d, 4)

SystemNameTLV_from_bytes(d) == StringTLV_from_bytes(d, 5)

SystemDescriptionTLV_from_bytes(d) == StringTLV_from_bytes(d, 6)

SystemCapabilitiesTLV_from_bytes(d) ==
    IF Len(d) /= 6 THEN Failed("ValueError")
    ELSE IF HeaderType(d) /= 7 THEN Failed("ValueError")
    ELSE LET supported == int_from_bytes(Slice(d, 2, 4))
             enabled == int_from_bytes(Slice(d, 4, 6))
             made == SystemCapabilitiesTLV(supported, enabled)
         IN  IF ~BitSubset(enabled, supported) THEN Failed("ValueError")
             ELSE IF made.err /= "none" THEN Failed(made.err)
             ELSE Decoded(made.tlv)

ManagementAddressTLV_from_bytes(d) ==
    IF Len(d) < 4 THEN Failed("IndexError")
    ELSE LET ma_strlength == d[3] - 2
             ma_subtype == d[4]
             a == ip_from_addr2Str(ma_subtype, Slice(d, 4, 5 + ma_strlength))
         IN  IF a.err /= "none" THEN Failed(a.err)
             ELSE IF Len(d) < 11 + ma_strlength THEN Failed("IndexError")
             ELSE LET insubtype == d[6 + ma_strlength]
                      ifacenmbr == Slice(d, 6 + ma_strlength,
                                         10 + ma_strlength)
                      oid_strlength == d[11 + ma_strlength]
                      oid == IF oid_strlength /= 0
                             THEN Some(SliceFrom(d, 11 + ma_strlength))
                             ELSE None
                  IN  Decoded(ManagementAddressTLV(a.ip, RawNumber(ifacenmbr),
                                                   PlainInt(insubtype), oid))

OrganizationallySpecificTLV_from_bytes(d) ==
    IF Len(d) < 1 THEN Failed("IndexError")
    ELSE IF HeaderType(d) /= 127 THEN Failed("ValueError")
    ELSE IF Len(d) < 6 THEN Failed("IndexError")
    ELSE Decoded(OrganizationallySpecificTLV(Slice(d, 2, 5), <<d[6]>>,
                                             SliceFrom(d, 6)))

\* TLV.from_bytes: the decoder of the variant the type code names
TLV_from_bytes(d) ==
    LET t == HeaderType(d)
    IN  CASE t = END_OF_LLDPDU -> EndOfLLDPDUTLV_from_bytes(d)
          [] t = CHASSIS_ID -> ChassisIdTLV_from_bytes(d)
          [] t = PORT_ID -> PortIdTLV_from_bytes(d)
          [] t = TTL -> TTLTLV_from_bytes(d)
          [] t = PORT_DESCRIPTION -> PortDescriptionTLV_from_bytes(d)
          [] t = SYSTEM_NAME -> SystemNameTLV_from_bytes(d)
          [] t = SYSTEM_DESCRIPTION -> SystemDescriptionTLV_from_bytes(d)
          [] t = SYSTEM_CAPABILITIES -> SystemCapabilitiesTLV_from_bytes(d)
          [] t = MANAGEMENT_ADDRESS -> ManagementAddressTLV_from_bytes(d)
          [] t = ORGANIZATIONALLY_SPECIFIC ->
                OrganizationallySpecificTLV_from_bytes(d)
          [] OTHER -> Failed("ValueError")

----------------------------------------------------------------------------
(* The LLDPDU container *)

\* the Ethernet payload budget
FrameLimit == 1500

\* LLDPDU.__bytes__: the TLVs' bytes, concatenated
RECURSIVE LLDPDU_bytes(_)
LLDPDU_bytes(self) ==
    IF Len(self) = 0 THEN Ok(<<>>)
    ELSE LET res == LLDPDU_bytes(SubSeq(self, 1, Len(self) - 1))
             b == bytes_of(self[Len(self)])
         IN  IF res.err /= "none" THEN res
             ELSE IF b.err /= "none" THEN b
             ELSE Ok(res.bytes \o b.bytes)

\* a faulty Rejected: the TLV is stored before the check that raises
Rejected_stored(self, tlv, e) == [err |-> e, tlvs |-> Append(self, tlv)]

\* the outcome of an append that raises e: the list is as it was
Rejected(self, tlv, e) == [err |-> e, tlvs |-> self]

\* a faulty Accepted: the TLV is put in front
Accepted_front(self, tlv) == [err |-> "none", tlvs |-> <<tlv>> \o self]

\* the outcome of an append that reaches self.__tlvs.append(tlv)
Accepted(self, tlv) == [err |-> "none", tlvs |-> Append(self, tlv)]

\* a faulty SizeViolation: the limit itself is refused
SizeViolation_inclusive(selfLen, tlvLen) == selfLen + tlvLen >= FrameLimit

\* "LLDPDU must fit into an ethernet frame", of the two serialized lengths
SizeViolation(selfLen, tlvLen) == selfLen + tlvLen > FrameLimit

\* the checks made of an EndOfLLDPDU TLV
EndViolation(self) ==
    \/ Len(self) < 3
    \/ self[Len(self)].type = END_OF_LLDPDU

\* "Trying to add ChassisID but not first item to be added?"
ChassisViolation(self) == Len(self) /= 0

\* a faulty PortViolation: a PortId is refused only behind the second place
PortViolation_late(self) == Len(self) > 1

\* "PortID must be second item in LLDPDU"
PortViolation(self) == Len(self) /= 1

\* a faulty TtlViolation: a TTL is refused only before the third place
TtlViolation_before(self) == Len(self) < 2

\* "TTL must be third item in LLDPDU"
TtlViolation(self) == Len(self) /= 2

\* a faulty OtherViolation: two prior TLVs are taken to be enough
OtherViolation_two(self) == Len(self) < 2

\* "other tlvs must be after chassis, port and ttl"
OtherViolation(self) == Len(self) < 3

\* LLDPDU.append(tlv): [err, tlvs], the exception raised and the list after
append(self, tlv) ==
    LET mine == LLDPDU_bytes(self)
        its == bytes_of(tlv)
    IN  IF mine.err /= "none" THEN Rejected(self, tlv, mine.err)
        ELSE IF its.err /= "none" THEN Rejected(self, tlv, its.err)
        ELSE IF SizeViolation(Len(mine.bytes), Len(its.bytes))
        THEN Rejected(self, tlv, "ValueError")
        ELSE IF tlv.type = END_OF_LLDPDU /\ EndViolation(self)
        THEN Rejected(self, tlv, "ValueError")
        ELSE IF tlv.type = CHASSIS_ID /\ ChassisViolation(self)
        THEN Rejected(self, tlv, "ValueError")
        ELSE IF tlv.type = PORT_ID /\ PortViolation(self)
        THEN Rejected(self, tlv, "ValueError")
        ELSE IF tlv.type = TTL /\ TtlViolation(self)
        THEN Rejected(self, tlv, "ValueError")
        ELSE IF tlv.type \notin {END_OF_LLDPDU, CHASSIS_ID, PORT_ID, TTL}
                /\ OtherViolation(self)
        THEN Rejected(self, tlv, "ValueError")
        ELSE Accepted(self, tlv)

\* a faulty LLDPDU_init: the arguments are stored as they come
LLDPDU_init_direct(args) == [err |-> "none", tlvs |-> args]

\* LLDPDU(*tlvs): append each in turn from the empty list; the first
\* exception ends the construction
RECURSIVE LLDPDU_init(_)
LLDPDU_init(args) ==
    IF Len(args) = 0 THEN [err |-> "none", tlvs |-> <<>>]
    ELSE LET sofar == LLDPDU_init(SubSeq(args, 1, Len(args) - 1))
         IN  IF sofar.err /= "none" THEN sofar
             ELSE append(sofar.tlvs, args[Len(args)])

\* a faulty complete: the last TLV is not looked at
complete_counted(self) ==
    IF Len(self) < 4 THEN FALSE
    ELSE IF self[1].type /= CHASSIS_ID THEN FALSE
    ELSE IF self[2].type /= PORT_ID THEN FALSE
    ELSE IF self[3].type /= TTL THEN FALSE
    ELSE TRUE

\* LLDPDU.complete()
complete(self) ==
    IF Len(self) < 4 THEN FALSE
    ELSE IF self[1].type /= CHASSIS_ID THEN FALSE
    ELSE IF self[2].type /= PORT_ID THEN FALSE
    ELSE IF self[3].type /= TTL THEN FALSE
    ELSE IF self[Len(self)].type /= END_OF_LLDPDU THEN FALSE
    ELSE TRUE

\* the type codes LLDPDU.from_bytes admits
KnownTypes == {0, 1, 2, 3, 4, 5, 6, 7, 8, 127}

\* a faulty from_bytes_pass: a TLV of a type outside KnownTypes is stepped
\* over
from_bytes_pass_skip(work_data, st) ==
    IF st.currentID >= Len(work_data)
    THEN [st EXCEPT !.err = "IndexError"]
    ELSE LET type == work_data[st.currentID + 1] \div 2
         IN  IF st.currentID + 1 >= Len(work_data)
             THEN [st EXCEPT !.err = "IndexError",
                             !.notEnd = (type /= END_OF_LLDPDU)]
             ELSE LET length == work_data[st.currentID + 2]
                      tlv == TLV_from_bytes(
                                 Slice(work_data, st.currentID,
                                       st.currentID + length + 2))
                  IN  IF type \notin KnownTypes
                      THEN [st EXCEPT !.currentID = @ + length + 2]
                      ELSE IF tlv.err /= "none"
                      THEN [st EXCEPT !.err = tlv.err,
                                      !.notEnd = (type /= END_OF_LLDPDU)]
                      ELSE [currentID |-> st.currentID + length + 2,
                            tlvs |-> Append(st.tlvs, tlv.tlv),
                            notEnd |-> (type /= END_OF_LLDPDU),
                            err |-> "none"]

\* a faulty from_bytes_pass: the offset advances by the length alone, the
\* two header bytes uncounted
from_bytes_pass_stall(work_data, st) ==
    IF st.currentID >= Len(work_data)
    THEN [st EXCEPT !.err = "IndexError"]
    ELSE LET type == work_data[st.currentID + 1] \div 2
         IN  IF type \notin KnownTypes THEN [st EXCEPT !.err = "ValueError"]
             ELSE IF st.currentID + 1 >= Len(work_data)
             THEN [st EXCEPT !.err = "IndexError",
                             !.notEnd = (type /= END_OF_LLDPDU)]
             ELSE LET length == work_data[st.currentID + 2]
                      tlv == TLV_from_bytes(
                                 Slice(work_data, st.currentID,
                                       st.currentID + length + 2))
                  IN  IF tlv.err /= "none"
                      THEN [st EXCEPT !.err = tlv.err,
                                      !.notEnd = (type /= END_OF_LLDPDU)]
                      ELSE [currentID |-> st.currentID + length,
                            tlvs |-> Append(st.tlvs, tlv.tlv),
                            notEnd |-> (type /= END_OF_LLDPDU),
                            err |-> "none"]

\* One pass of the loop of LLDPDU.from_bytes, on the locals
\* st = [currentID, tlvs, notEnd, err]: the locals after the pass, err naming
\* the exception that ended it.
from_bytes_pass(work_data, st) ==
    IF st.currentID >= Len(work_data)
    THEN [st EXCEPT !.err = "IndexError"]
    ELSE LET type == work_data[st.currentID + 1] \div 2
         IN  IF type \notin KnownTypes THEN [st EXCEPT !.err = "ValueError"]
             ELSE IF st.currentID + 1 >= Len(work_data)
             THEN [st EXCEPT !.err = "IndexError",
                             !.notEnd = (type /= END_OF_LLDPDU)]
             ELSE LET length == work_data[st.currentID + 2]
                      tlv == TLV_from_bytes(
                                 Slice(work_data, st.currentID,
                                       st.currentID + length + 2))
                  IN  IF tlv.err /= "none"
                      THEN [st EXCEPT !.err = tlv.err,
                                      !.notEnd = (type /= END_OF_LLDPDU)]
                      ELSE [currentID |-> st.currentID + length + 2,
                            tlvs |-> Append(st.tlvs, tlv.tlv),
                            notEnd |-> (type /= END_OF_LLDPDU),
                            err |-> "none"]

\* the loop of LLDPDU.from_bytes, run from the locals st until it ends
RECURSIVE from_bytes_loop(_, _)
from_bytes_loop(work_data, st) ==
    IF st.err /= "none" \/ ~st.notEnd THEN st
    ELSE from_bytes_loop(work_data, from_bytes_pass(work_data, st))

\* the locals of LLDPDU.from_bytes before its loop
from_bytes_start ==
    [currentID |-> 0, tlvs |-> <<>>, notEnd |-> TRUE, err |-> "none"]

\* LLDPDU.from_bytes(data): [err, tlvs]
LLDPDU_from_bytes(d) ==
    LET st == from_bytes_loop(d, from_bytes_start)
    IN  IF st.err /= "none" THEN [err |-> st.err, tlvs |-> <<>>]
        ELSE LLDPDU_init(st.tlvs)

----------------------------------------------------------------------------
(* The TLVs the callers of the model hand to the container *)

\* successful appends made to one LLDPDU after its construction
MaxAppends == 5

\* n bytes of opaque data
Fill(n) == [i \in 1..n |-> i % 256]

\* the agent's mac_address and interface_name
LocalMac == <<2, 4, 223, 136, 162, 180>>
InterfaceName == <<101, 116, 104, 48>>

\* ChassisIdTLV(ChassisIdTLV.Subtype.MAC_ADDRESS, b"\x02\x04\xdf\x88\xa2\xb4")
TheChassis == ChassisIdTLV(EnumMember(ChassisId_MAC_ADDRESS), LocalMac)

\* PortIdTLV(PortIdTLV.Subtype.INTERFACE_NAME, "eth0")
ThePort == PortIdTLV(EnumMember(PortId_INTERFACE_NAME), InterfaceName)

TheTtl == TTLTLV(60)

\* PortDescriptionTLV("café"): 4 characters, 5 bytes
ThePortDescription == PortDescriptionTLV(<<99, 97, 102, 233>>)

\* SystemNameTLV("sw1")
TheSystemName == SystemNameTLV(<<115, 119, 49>>)

\* OrganizationallySpecificTLV of 8, 257, 195 and 196 bytes
OrgSmall == OrganizationallySpecificTLV(<<0, 18, 15>>, <<1>>, <<7, 7>>)
OrgBig == OrganizationallySpecificTLV(<<0, 18, 15>>, <<1>>, Fill(251))
OrgA == OrganizationallySpecificTLV(<<0, 18, 15>>, <<2>>, Fill(189))
OrgB == OrganizationallySpecificTLV(<<0, 18, 15>>, <<3>>, Fill(190))

\* the TLVs offered to an LLDPDU under Spec
TLVInputs ==
    <<TheChassis, ThePort, TheTtl, EndOfLLDPDUTLV, ThePortDescription,
      TheSystemName, OrgSmall>>

\* the TLVs offered to an LLDPDU under SpecSize
SizeInputs ==
    <<TheTtl, EndOfLLDPDUTLV, ThePortDescription, OrgBig, OrgA, OrgB>>

\* the argument lists given to the constructor LLDPDU(*tlvs) under Spec
CtorArgs == << <<>>, <<TheChassis, ThePort, TheTtl>> >>

\* the argument list given to the constructor under SpecSize: 1305 bytes
SizeCtorArgs ==
    <<TheChassis, ThePort, TheTtl, OrgBig, OrgBig, OrgBig, OrgBig, OrgBig>>

\* the value of arg when the last operation took no TLV
NoTLV == [type |-> -1]

----------------------------------------------------------------------------
(* The parts of the state a specification leaves alone *)

ContainerIdle ==
    /\ tlvs = <<>>
    /\ pre = <<>>
    /\ op = "init"
    /\ arg = NoTLV
    /\ result = "none"
    /\ ret = FALSE
    /\ nAppends = 0

ParseIdle ==
    /\ data = <<>>
    /\ currentID = 0
    /\ ptlvs = <<>>
    /\ notEnd = TRUE
    /\ ppc = "idle"
    /\ pres = [err |-> "none", tlvs |-> <<>>]
    /\ iters = 0

AgentIdle ==
    /\ apc = "idle"
    /\ run_once = FALSE
    /\ received = FALSE
    /\ t_previous = 0
    /\ now = 0
    /\ sockOpen = FALSE
    /\ frame = <<>>
    /\ handed = <<>>
    /\ parsed = <<>>
    /\ log = <<>>
    /\ sent = <<>>
    /\ exc = "none"

DecodeIdle ==
    /\ dkind = "idle"
    /\ dvariant = -1
    /\ dbytes = <<>>
    /\ dargs = <<>>
    /\ ddec = [err |-> "none", tlv |-> NoTLV]
    /\ denc = [err |-> "none", bytes |-> <<>>]
    /\ dpc = "idle"

CodecIdle ==
    /\ ctlv = NoTLV
    /\ cenc = [err |-> "none", bytes |-> <<>>]
    /\ cdec = [err |-> "none", tlv |-> NoTLV]
    /\ kpc = "idle"

----------------------------------------------------------------------------
(* Spec: one LLDPDU, from its construction, under append and complete *)

\* the state after LLDPDU(*args)
Constructed(args) ==
    /\ LLDPDU_init(args).err = "none"
    /\ tlvs = LLDPDU_init(args).tlvs
    /\ pre = <<>>
    /\ op = "init"
    /\ arg = NoTLV
    /\ result = "none"
    /\ ret = FALSE
    /\ nAppends = 0

Init ==
    /\ \E i \in 1..Len(CtorArgs) : Constructed(CtorArgs[i])
    /\ ParseIdle
    /\ AgentIdle
    /\ CodecIdle
    /\ DecodeIdle

\* a caller appends tlv
DoAppend(tlv) ==
    /\ nAppends < MaxAppends
    /\ LET r == append(tlvs, tlv)
       IN  /\ tlvs' = r.tlvs
           /\ result' = r.err
           /\ nAppends' = IF r.err = "none" THEN nAppends + 1 ELSE nAppends
    /\ pre' = tlvs
    /\ op' = "append"
    /\ arg' = tlv
    /\ ret' = FALSE
    /\ UNCHANGED <<pvars, avars, kvars, dvars>>

\* a caller asks complete()
DoComplete ==
    /\ ret' = complete(tlvs)
    /\ pre' = tlvs
    /\ op' = "complete"
    /\ arg' = NoTLV
    /\ result' = "none"
    /\ UNCHANGED <<tlvs, nAppends>>
    /\ UNCHANGED <<pvars, avars, kvars, dvars>>

Next ==
    \/ \E i \in 1..Len(TLVInputs) : DoAppend(TLVInputs[i])
    \/ DoComplete

Spec == Init /\ [][Next]_vars

----------------------------------------------------------------------------
(* SpecSize: an LLDPDU constructed 195 bytes short of the frame limit *)

InitSize ==
    /\ Constructed(SizeCtorArgs)
    /\ ParseIdle
    /\ AgentIdle
    /\ CodecIdle
    /\ DecodeIdle

NextSize ==
    \/ \E i \in 1..Len(SizeInputs) : DoAppend(SizeInputs[i])
    \/ DoComplete

SpecSize == InitSize /\ [][NextSize]_vars

----------------------------------------------------------------------------
(* SpecParse: LLDPDU.from_bytes(data), one action per pass of its loop *)

\* TLVs of one input
MaxChunks == 4

\* the pieces the inputs are made of: the bytes of six TLVs, a TLV header of
\* the unassigned type 9, and a Ttl cut short
Chunks ==
    << bytes_of(TheChassis).bytes, bytes_of(ThePort).bytes,
       bytes_of(TheTtl).bytes, bytes_of(EndOfLLDPDUTLV).bytes,
       bytes_of(ThePortDescription).bytes, bytes_of(OrgSmall).bytes,
       <<18, 0>>, <<6, 2, 0>> >>

RECURSIVE Concat(_)
Concat(ss) == IF Len(ss) = 0 THEN <<>> ELSE Head(ss) \o Concat(Tail(ss))

ParseInputs ==
    UNION { {Concat([k \in 1..n |-> Chunks[c[k]]]) :
                c \in [1..n -> 1..Len(Chunks)]} : n \in 0..MaxChunks }

\* the bytes of ChassisId, PortId, Ttl
Triple == Chunks[1] \o Chunks[2] \o Chunks[3]

\* OrganizationallySpecificTLV of 126 bytes
OrgMid == OrganizationallySpecificTLV(<<0, 18, 15>>, <<4>>, Fill(120))

\* longer inputs: a terminated LLDPDU followed by more bytes; a TLV of type
\* 127 whose header gives the length 264, followed by its 264 bytes; twelve
\* TLVs of 126 bytes after the triple, 1535 bytes in all; a lone header byte
\* of type 9 after the triple
LongInputs ==
    { Triple \o <<0, 0>> \o <<18, 0>>,
      Triple \o <<0, 0>> \o Chunks[5] \o <<0, 0>>,
      Triple \o <<255, 8>> \o Fill(264) \o <<0, 0>>,
      Triple \o Concat([k \in 1..12 |-> bytes_of(OrgMid).bytes])
             \o <<0, 0>>,
      Triple \o <<18>> }

\* inputs of TLVs without a value: two empty PortDescriptions before an
\* EndOfLLDPDU, and the two alone
EmptyInputs == { <<8, 0, 8, 0, 0, 0>>, <<8, 0, 8, 0>> }

InitParse ==
    /\ data \in ParseInputs \cup LongInputs \cup EmptyInputs
    /\ currentID = 0
    /\ ptlvs = <<>>
    /\ notEnd = TRUE
    /\ ppc = "loop"
    /\ pres = [err |-> "none", tlvs |-> <<>>]
    /\ iters = 0
    /\ ContainerIdle
    /\ AgentIdle
    /\ CodecIdle
    /\ DecodeIdle

\* one pass of "while notEnd"
ParsePass ==
    /\ ppc = "loop"
    /\ LET st == from_bytes_pass(data, [currentID |-> currentID,
                                        tlvs |-> ptlvs, notEnd |-> notEnd,
                                        err |-> "none"])
       IN  /\ currentID' = st.currentID
           /\ ptlvs' = st.tlvs
           /\ notEnd' = st.notEnd
           /\ IF st.err /= "none"
              THEN ppc' = "done" /\ pres' = [err |-> st.err, tlvs |-> <<>>]
              ELSE /\ ppc' = IF st.notEnd THEN "loop" ELSE "construct"
                   /\ pres' = pres
    /\ iters' = iters + 1
    /\ UNCHANGED <<data, cvars, avars, kvars, dvars>>

\* "return LLDPDU(*tlvs)"
ParseConstruct ==
    /\ ppc = "construct"
    /\ pres' = LLDPDU_init(ptlvs)
    /\ ppc' = "done"
    /\ UNCHANGED <<data, currentID, ptlvs, notEnd, iters>>
    /\ UNCHANGED <<cvars, avars, kvars, dvars>>

NextParse == ParsePass \/ ParseConstruct

SpecParse == InitParse /\ [][NextParse]_vars

----------------------------------------------------------------------------
(* SpecAgent: LLDPAgent.run, the agent constructed with mac_address         *)
(* LocalMac, interface_name "eth0" and interval Interval                    *)

\* self.announce_interval, in ticks of the clock
Interval == 2

\* the clock stops here
MaxTime == 6

\* a neighbour's address
NeighbourMac == <<2, 4, 223, 136, 162, 181>>

LLDP_ETHERTYPE == <<136, 204>>

\* the destinations run() accepts, in the order of its list
NearestBridge == <<1, 128, 194, 0, 0, 14>>
NearestCustomerBridge == <<1, 128, 194, 0, 0, 0>>
NearestNonTpmrBridge == <<1, 128, 194, 0, 0, 3>>
LLDPMulticast == {NearestBridge, NearestCustomerBridge, NearestNonTpmrBridge}

\* a faulty announce(): the LLDPDU is closed with an EndOfLLDPDU TLV
announce_lldpdu_end ==
    LLDPDU_init(<<ChassisIdTLV(EnumMember(ChassisId_MAC_ADDRESS), LocalMac),
                  PortIdTLV(EnumMember(PortId_INTERFACE_NAME), InterfaceName),
                  TTLTLV(60), EndOfLLDPDUTLV>>)

\* the LLDPDU announce() builds, and the frame it sends
announce_lldpdu ==
    LLDPDU_init(<<ChassisIdTLV(EnumMember(ChassisId_MAC_ADDRESS), LocalMac),
                  PortIdTLV(EnumMember(PortId_INTERFACE_NAME), InterfaceName),
                  TTLTLV(60)>>)

announce_frame ==
    NearestBridge \o LocalMac \o LLDP_ETHERTYPE
        \o LLDPDU_bytes(announce_lldpdu.tlvs).bytes

\* the LLDPDUs the frames on the wire carry
Payloads ==
    LET c == bytes_of(ChassisIdTLV(EnumMember(ChassisId_MAC_ADDRESS),
                                   NeighbourMac)).bytes
        p == bytes_of(ThePort).bytes
        t == bytes_of(TheTtl).bytes
        e == bytes_of(EndOfLLDPDUTLV).bytes
    IN  { c \o p \o t \o e,     \* complete
          c \o p \o t,          \* no terminator
          p \o c \o t \o e,     \* out of order
          <<18, 0>> \o e,       \* unassigned type 9
          c \o p \o <<6, 2, 0>>,\* cut short
          <<>> }

\* what recv() may yield: Ethernet frames, and one shorter than a header
Frames ==
    { d \o s \o y \o l :
        d \in LLDPMulticast \cup {<<255, 255, 255, 255, 255, 255>>},
        s \in {LocalMac, NeighbourMac},
        y \in {LLDP_ETHERTYPE, <<8, 0>>},
        l \in Payloads }
    \cup { <<1, 128, 194>> }

\* the two tests of run() that end in "continue"
WrongEtherType(work_data) == Slice(work_data, 12, 14) /= LLDP_ETHERTYPE

\* a faulty WrongDestination: the broadcast address passes too
WrongDestination_broadcast(work_data) ==
    Slice(work_data, 0, 6)
        \notin LLDPMulticast \cup {<<255, 255, 255, 255, 255, 255>>}

WrongDestination(work_data) == Slice(work_data, 0, 6) \notin LLDPMulticast

\* a faulty raw_lldpdu: the EtherType is left on the payload
raw_lldpdu_typed(work_data) == SliceFrom(work_data, 12)

\* "raw_lldpdu = work_data[14:]"
raw_lldpdu(work_data) == SliceFrom(work_data, 14)

InitAgent ==
    /\ apc = "loop"
    /\ run_once \in BOOLEAN
    /\ received = FALSE
    /\ t_previous = 0
    /\ now = 0
    /\ sockOpen = TRUE
    /\ frame = <<>>
    /\ handed = <<>>
    /\ parsed = <<>>
    /\ log = <<>>
    /\ sent = <<>>
    /\ exc = "none"
    /\ ContainerIdle
    /\ ParseIdle
    /\ CodecIdle
    /\ DecodeIdle

\* "while not run_once or not received", and the finally clause when the
\* loop ends
LoopTest ==
    /\ apc = "loop"
    /\ IF ~run_once \/ ~received
       THEN apc' = "select" /\ sockOpen' = sockOpen
       ELSE apc' = "done" /\ sockOpen' = FALSE
    /\ UNCHANGED <<run_once, received, t_previous, now, frame, handed,
                   parsed, log, sent, exc>>
    /\ UNCHANGED <<cvars, pvars, kvars, dvars>>

\* select() returns nothing after announce_interval
SelectTimeout ==
    /\ apc = "select"
    /\ now + Interval <= MaxTime
    /\ now' = now + Interval
    /\ frame' = <<>>
    /\ apc' = "announce"
    /\ UNCHANGED <<run_once, received, t_previous, sockOpen, handed,
                   parsed, log, sent, exc>>
    /\ UNCHANGED <<cvars, pvars, kvars, dvars>>

\* select() returns the socket after dt ticks and recv() yields f: the
\* filters, LLDPDU.from_bytes and the logger
Receive(f, dt) ==
    /\ apc = "select"
    /\ now + dt <= MaxTime
    /\ now' = now + dt
    /\ frame' = f
    /\ IF WrongEtherType(f) \/ WrongDestination(f)
       THEN /\ apc' = "loop"
            /\ UNCHANGED <<received, sockOpen, handed, parsed, log, exc>>
       ELSE LET lldpdu == LLDPDU_from_bytes(raw_lldpdu(f))
            IN  /\ handed' = Append(handed, f)
                /\ parsed' = Append(parsed, raw_lldpdu(f))
                /\ IF lldpdu.err = "none"
                   THEN /\ log' = Append(log, lldpdu.tlvs)
                        /\ received' = TRUE
                        /\ apc' = "announce"
                        /\ UNCHANGED <<sockOpen, exc>>
                   ELSE /\ exc' = lldpdu.err
                        /\ sockOpen' = FALSE
                        /\ apc' = "raised"
                        /\ UNCHANGED <<log, received>>
    /\ UNCHANGED <<run_once, t_previous, sent>>
    /\ UNCHANGED <<cvars, pvars, kvars, dvars>>

\* a faulty AnnounceCheck: the announcement is sent as soon as
\* announce_interval has passed, not after more than that
AnnounceCheck_atleast(dt) ==
    /\ apc = "announce"
    /\ now + dt <= MaxTime
    /\ LET t_now == now + dt
       IN  /\ now' = t_now
           /\ IF t_now - t_previous >= Interval
              THEN /\ sent' = Append(sent, announce_frame)
                   /\ t_previous' = t_now
              ELSE UNCHANGED <<sent, t_previous>>
    /\ apc' = "loop"
    /\ UNCHANGED <<run_once, received, sockOpen, frame, handed, parsed, log,
                   exc>>
    /\ UNCHANGED <<cvars, pvars, kvars, dvars>>

\* "t_now = time.time()", read dt ticks later, and the announcement
AnnounceCheck(dt) ==
    /\ apc = "announce"
    /\ now + dt <= MaxTime
    /\ LET t_now == now + dt
       IN  /\ now' = t_now
           /\ IF t_now - t_previous > Interval
              THEN /\ sent' = Append(sent, announce_frame)
                   /\ t_previous' = t_now
              ELSE UNCHANGED <<sent, t_previous>>
    /\ apc' = "loop"
    /\ UNCHANGED <<run_once, received, sockOpen, frame, handed, parsed, log,
                   exc>>
    /\ UNCHANGED <<cvars, pvars, kvars, dvars>>

\* a faulty Interrupt: the socket is left open
Interrupt_open ==
    /\ apc \in {"loop", "select", "announce"}
    /\ apc' = "done"
    /\ UNCHANGED <<run_once, received, t_previous, now, sockOpen, frame,
                   handed, parsed, log, sent, exc>>
    /\ UNCHANGED <<cvars, pvars, kvars, dvars>>

\* KeyboardInterrupt: caught, and the finally clause closes the socket
Interrupt ==
    /\ apc \in {"loop", "select", "announce"}
    /\ apc' = "done"
    /\ sockOpen' = FALSE
    /\ UNCHANGED <<run_once, received, t_previous, now, frame, handed,
                   parsed, log, sent, exc>>
    /\ UNCHANGED <<cvars, pvars, kvars, dvars>>

\* select() or recv() raises OSError: no frame is read, the finally clause
\* closes the socket and the exception leaves run()
RecvFails ==
    /\ apc = "select"
    /\ frame' = <<>>
    /\ exc' = "OSError"
    /\ sockOpen' = FALSE
    /\ apc' = "raised"
    /\ UNCHANGED <<run_once, received, t_previous, now, handed, parsed, log,
                   sent>>
    /\ UNCHANGED <<cvars, pvars, kvars, dvars>>

\* the announcement is due and socket.send() raises OSError: nothing is
\* sent, the finally clause closes the socket and the exception leaves run()
SendFails(dt) ==
    /\ apc = "announce"
    /\ now + dt <= MaxTime
    /\ (now + dt) - t_previous > Interval
    /\ now' = now + dt
    /\ exc' = "OSError"
    /\ sockOpen' = FALSE
    /\ apc' = "raised"
    /\ UNCHANGED <<run_once, received, t_previous, frame, handed, parsed,
                   log, sent>>
    /\ UNCHANGED <<cvars, pvars, kvars, dvars>>

NextAgent ==
    \/ LoopTest
    \/ SelectTimeout
    \/ \E f \in Frames, dt \in 0..Interval : Receive(f, dt)
    \/ \E dt \in 0..1 : AnnounceCheck(dt)
    \/ Interrupt
    \/ RecvFails
    \/ \E dt \in 0..1 : SendFails(dt)

SpecAgent == InitAgent /\ [][NextAgent]_vars

\* select() returns: at the latest when its timeout ends
SelectReturns ==
    SelectTimeout \/ \E f \in Frames, dt \in 0..Interval : Receive(f, dt)

\* run() executes its statements one after the other: the loop test, the
\* return of select() and the announce check each happen when they are due
SpecAgentLive ==
    /\ InitAgent
    /\ [][NextAgent]_vars
    /\ WF_vars(LoopTest)
    /\ WF_vars(SelectReturns)
    /\ WF_vars(\E dt \in 0..1 : AnnounceCheck(dt))

----------------------------------------------------------------------------
(* SpecCodec: one TLV, serialized by bytes() and read back by              *)
(* TLV.from_bytes()                                                         *)

\* a str of n letters "a"
Letters(n) == [i \in 1..n |-> 97]

\* the lengths of the strings and opaque values tried: about the places
\* where the length needs an eighth and a ninth bit
StringLengths == <<0, 1, 4, 126, 127, 128, 200, 254, 255, 256>>
ValueLengths == <<0, 1, 2, 123, 124, 251, 252, 507>>

\* the TLVs given to bytes(), variant by variant
ChassisInputs ==
    <<TheChassis,
      ChassisIdTLV(EnumMember(ChassisId_NETWORK_ADDRESS),
                   IPAddress(4, <<192, 0, 2, 1>>)),
      ChassisIdTLV(EnumMember(ChassisId_NETWORK_ADDRESS),
                   IPAddress(6, Fill(16)))>>
    \o [i \in 1..Len(StringLengths) |->
           ChassisIdTLV(EnumMember(7), Letters(StringLengths[i]))]

PortInputs ==
    <<PortIdTLV(EnumMember(PortId_MAC_ADDRESS), LocalMac),
      PortIdTLV(EnumMember(PortId_NETWORK_ADDRESS),
                IPAddress(4, <<192, 0, 2, 1>>)),
      PortIdTLV(EnumMember(PortId_NETWORK_ADDRESS), IPAddress(6, Fill(16)))>>
    \o [i \in 1..Len(StringLengths) |->
           PortIdTLV(EnumMember(PortId_INTERFACE_NAME),
                     Letters(StringLengths[i]))]

TtlInputs == <<TTLTLV(0), TTLTLV(60), TTLTLV(255), TTLTLV(256), TTLTLV(65535)>>

StringInputs ==
    [i \in 1..Len(StringLengths) |->
        PortDescriptionTLV(Letters(StringLengths[i]))]
    \o [i \in 1..Len(StringLengths) |->
           SystemNameTLV(Letters(StringLengths[i]))]
    \o [i \in 1..Len(StringLengths) |->
           SystemDescriptionTLV(Letters(StringLengths[i]))]
    \o <<ThePortDescription>>

CapabilityInputs ==
    <<SystemCapabilitiesTLV(128, 128).tlv, SystemCapabilitiesTLV(0, 0).tlv,
      SystemCapabilitiesTLV(20, 4).tlv,
      SystemCapabilitiesTLV(65535, 65535).tlv>>

ManagementInputs ==
    <<ManagementAddressTLV(IPAddress(4, <<192, 0, 2, 1>>), IntNumber(4),
                           EnumMember(2), None),
      ManagementAddressTLV(IPAddress(4, <<192, 0, 2, 1>>), IntNumber(0),
                           EnumMember(1), Some(<<1, 3, 6, 1>>)),
      ManagementAddressTLV(IPAddress(6, Fill(16)), IntNumber(70000),
                           EnumMember(3), None),
      ManagementAddressTLV(IPAddress(6, Fill(16)), IntNumber(1),
                           EnumMember(2), Some(Fill(128)))>>

OrgInputs ==
    [i \in 1..Len(ValueLengths) |->
        OrganizationallySpecificTLV(<<0, 18, 15>>, <<1>>,
                                    Fill(ValueLengths[i]))]

CodecInputs ==
    <<EndOfLLDPDUTLV>> \o ChassisInputs \o PortInputs \o TtlInputs
    \o StringInputs \o CapabilityInputs \o ManagementInputs \o OrgInputs

InitCodec ==
    /\ \E i \in 1..Len(CodecInputs) : ctlv = CodecInputs[i]
    /\ cenc = [err |-> "none", bytes |-> <<>>]
    /\ cdec = [err |-> "none", tlv |-> NoTLV]
    /\ kpc = "made"
    /\ ContainerIdle
    /\ ParseIdle
    /\ AgentIdle
    /\ DecodeIdle

\* bytes(tlv)
Encode ==
    /\ kpc = "made"
    /\ cenc' = bytes_of(ctlv)
    /\ kpc' = "encoded"
    /\ UNCHANGED <<ctlv, cdec>>
    /\ UNCHANGED <<cvars, pvars, avars, dvars>>

\* TLV.from_bytes(bytes(tlv)), when bytes(tlv) has not raised
Decode ==
    /\ kpc = "encoded"
    /\ cenc.err = "none"
    /\ cdec' = TLV_from_bytes(cenc.bytes)
    /\ kpc' = "decoded"
    /\ UNCHANGED <<ctlv, cenc>>
    /\ UNCHANGED <<cvars, pvars, avars, dvars>>

NextCodec == Encode \/ Decode

SpecCodec == InitCodec /\ [][NextCodec]_vars

----------------------------------------------------------------------------
(* SpecDecode: one call of a variant's from_bytes() on given bytes, or of  *)
(* the SystemCapabilitiesTLV constructor on given bitmaps, and then        *)
(* bytes() of the TLV made                                                  *)

\* V.from_bytes(d) of the variant V whose type code is v
from_bytes_of(v, d) ==
    CASE v = END_OF_LLDPDU -> EndOfLLDPDUTLV_from_bytes(d)
      [] v = CHASSIS_ID -> ChassisIdTLV_from_bytes(d)
      [] v = PORT_ID -> PortIdTLV_from_bytes(d)
      [] v = TTL -> TTLTLV_from_bytes(d)
      [] v = PORT_DESCRIPTION -> PortDescriptionTLV_from_bytes(d)
      [] v = SYSTEM_NAME -> SystemNameTLV_from_bytes(d)
      [] v = SYSTEM_DESCRIPTION -> SystemDescriptionTLV_from_bytes(d)
      [] v = SYSTEM_CAPABILITIES -> SystemCapabilitiesTLV_from_bytes(d)
      [] v = MANAGEMENT_ADDRESS -> ManagementAddressTLV_from_bytes(d)
      [] v = ORGANIZATIONALLY_SPECIFIC ->
            OrganizationallySpecificTLV_from_bytes(d)

\* the capability bitmaps tried
Bitmaps == {0, 1, 2, 3, 4, 20, 128, 255, 256, 32768, 65535}

\* the serializations of the TLVs of SpecCodec
EncodedInputs ==
    { bytes_of(CodecInputs[i]).bytes :
        i \in {k \in 1..Len(CodecInputs) :
                   bytes_of(CodecInputs[k]).err = "none"} }

\* ChassisId and PortId TLVs of the MAC-address subtype with 3 and 8 bytes
MacInputs ==
    { <<2, 4, 4>> \o Fill(3), <<2, 9, 4>> \o Fill(8),
      <<4, 4, 3>> \o Fill(3), <<4, 9, 3>> \o Fill(8) }

\* ChassisId and PortId TLVs of the network-address subtype: the family
\* prefixes 0 to 3 before 3, 4, 16 and 17 bytes
NetworkInputs ==
    { <<2, n + 2, ChassisId_NETWORK_ADDRESS, f>> \o Fill(n) :
        f \in 0..3, n \in {3, 4, 16, 17} }
    \cup { <<4, n + 2, PortId_NETWORK_ADDRESS, f>> \o Fill(n) :
             f \in 0..3, n \in {3, 4, 16, 17} }

\* ManagementAddress TLVs of 192.0.2.1 and interface number 4: without OID;
\* with the OID 1.3.6.1; the OID length given as 10 before 3 bytes; given
\* as 2 before 4 bytes; the address cut short; the interface number cut
\* short; under a header of type 127; and one of an IPv6 address
ManagementRaw ==
    { <<16, 12, 5, 1, 192, 0, 2, 1, 2, 0, 0, 0, 4, 0>>,
      <<16, 16, 5, 1, 192, 0, 2, 1, 2, 0, 0, 0, 4, 4, 1, 3, 6, 1>>,
      <<16, 16, 5, 1, 192, 0, 2, 1, 2, 0, 0, 0, 4, 10, 1, 3, 6>>,
      <<16, 16, 5, 1, 192, 0, 2, 1, 2, 0, 0, 0, 4, 2, 1, 3, 6, 1>>,
      <<16, 12, 5, 1, 192, 0, 2>>,
      <<16, 12, 5, 1, 192, 0, 2, 1, 2, 0, 0>>,
      <<254, 12, 5, 1, 192, 0, 2, 1, 2, 0, 0, 0, 4, 0>>,
      <<16, 24, 17, 2>> \o Fill(16) \o <<2, 0, 0, 0, 1, 0>> }

\* no bytes, a lone header byte, a lone header, a Ttl cut short, a Ttl with
\* the high length bit set, a PortDescription of ill-formed UTF-8
BrokenInputs ==
    { <<>>, <<2>>, <<2, 1>>, <<6, 2, 0>>, <<7, 2, 0, 60>>, <<8, 2, 195, 40>> }

RawInputs ==
    EncodedInputs \cup MacInputs \cup NetworkInputs \cup ManagementRaw
        \cup BrokenInputs

\* the bytes of a SystemCapabilities TLV with the two bitmaps
CapabilityBytes(supported, enabled) ==
    <<14, 4>> \o to_bytes(supported, 2) \o to_bytes(enabled, 2)

InitDecode ==
    /\ \/ /\ dkind = "bytes"
          /\ dvariant \in KnownTypes
          /\ dbytes \in RawInputs
          /\ dargs = <<>>
       \/ /\ dkind = "bytes"
          /\ dvariant = SYSTEM_CAPABILITIES
          /\ \E su \in Bitmaps, en \in Bitmaps :
                dbytes = CapabilityBytes(su, en)
          /\ dargs = <<>>
       \/ /\ dkind = "args"
          /\ dvariant = SYSTEM_CAPABILITIES
          /\ dbytes = <<>>
          /\ dargs \in Bitmaps \X Bitmaps
    /\ ddec = [err |-> "none", tlv |-> NoTLV]
    /\ denc = [err |-> "none", bytes |-> <<>>]
    /\ dpc = "start"
    /\ ContainerIdle
    /\ ParseIdle
    /\ AgentIdle
    /\ CodecIdle

\* V.from_bytes(dbytes)
DecodeRaw ==
    /\ dpc = "start"
    /\ dkind = "bytes"
    /\ ddec' = from_bytes_of(dvariant, dbytes)
    /\ dpc' = "made"
    /\ UNCHANGED <<dkind, dvariant, dbytes, dargs, denc>>
    /\ UNCHANGED <<cvars, pvars, avars, kvars>>

\* SystemCapabilitiesTLV(supported, enabled)
Construct ==
    /\ dpc = "start"
    /\ dkind = "args"
    /\ LET made == SystemCapabilitiesTLV(dargs[1], dargs[2])
       IN  ddec' = IF made.err = "none" THEN Decoded(made.tlv)
                   ELSE Failed(made.err)
    /\ dpc' = "made"
    /\ UNCHANGED <<dkind, dvariant, dbytes, dargs, denc>>
    /\ UNCHANGED <<cvars, pvars, avars, kvars>>

\* bytes(tlv) of the TLV the call returned
Reencode ==
    /\ dpc = "made"
    /\ ddec.err = "none"
    /\ denc' = bytes_of(ddec.tlv)
    /\ dpc' = "encoded"
    /\ UNCHANGED <<dkind, dvariant, dbytes, dargs, ddec>>
    /\ UNCHANGED <<cvars, pvars, avars, kvars>>

NextDecode == DecodeRaw \/ Construct \/ Reencode

SpecDecode == InitDecode /\ [][NextDecode]_vars

----------------------------------------------------------------------------
(* Properties of the container *)

HasType(s, t) == \E i \in 1..Len(s) : s[i].type = t

Mandatory == {CHASSIS_ID, PORT_ID, TTL}

\* len(bytes(pdu)) of an LLDPDU whose TLVs all serialize
SerializedLen(s) == Len(LLDPDU_bytes(s).bytes)

\* C1: once an LLDPDU contains an EndOfLLDPDU TLV, every later append fails
\* and the EndOfLLDPDU TLV stays the last element.
C1_AppendAfterEndFails ==
    (op = "append" /\ HasType(pre, END_OF_LLDPDU)) =>
        /\ result /= "none"
        /\ tlvs[Len(tlvs)].type = END_OF_LLDPDU

\* C2: at most one element of a reachable LLDPDU has type EndOfLLDPDU.
C2_AtMostOneEnd ==
    Cardinality({i \in 1..Len(tlvs) : tlvs[i].type = END_OF_LLDPDU}) <= 1

\* C3: ChassisId only at index 0, PortId only at index 1, Ttl only at index 2
\* (hence each at most once); appending PortId to an empty LLDPDU fails and
\* appending a second Ttl fails.
C3_MandatoryPositions ==
    /\ \A i \in 1..Len(tlvs) :
          /\ tlvs[i].type = CHASSIS_ID => i = 1
          /\ tlvs[i].type = PORT_ID => i = 2
          /\ tlvs[i].type = TTL => i = 3
    /\ (op = "append" /\ arg.type = PORT_ID /\ Len(pre) = 0) => result /= "none"
    /\ (op = "append" /\ arg.type = TTL /\ HasType(pre, TTL)) => result /= "none"

\* a second Ttl was offered to an LLDPDU holding the mandatory triple
C3_Witness ==
    /\ op = "append" /\ arg.type = TTL /\ result = "ValueError"
    /\ Len(tlvs) > 3 /\ tlvs[1].type = CHASSIS_ID /\ tlvs[2].type = PORT_ID
    /\ tlvs[3].type = TTL

\* C4: appending a TLV that is not ChassisId, PortId or Ttl fails whenever
\* the LLDPDU holds fewer than 3 TLVs.
C4_OptionalNeedsTriple ==
    (op = "append" /\ arg.type \notin Mandatory /\ Len(pre) < 3) =>
        result /= "none"

\* an optional TLV was offered to [ChassisId, PortId]
C4_Witness ==
    /\ op = "append" /\ arg.type = ORGANIZATIONALLY_SPECIFIC
    /\ Len(pre) = 2 /\ result = "ValueError"

\* C5: a failed append leaves the LLDPDU as it was: the same TLVs in the
\* same order, the same length, the same serialization.
C5_FailedAppendAtomic ==
    (op = "append" /\ result /= "none") =>
        /\ Len(tlvs) = Len(pre)
        /\ tlvs = pre
        /\ LLDPDU_bytes(tlvs) = LLDPDU_bytes(pre)

\* an append was refused for size alone, by an LLDPDU holding TLVs
C5_Witness ==
    /\ op = "append" /\ result = "ValueError"
    /\ arg.type = ORGANIZATIONALLY_SPECIFIC /\ Len(pre) > 3
    /\ SerializedLen(pre) + Len(bytes_of(arg).bytes) > 1500

\* C6: an order-valid append succeeds when the serialized length of the
\* LLDPDU plus that of the new TLV is exactly 1500 and fails when it is 1501
\* or more; every reachable LLDPDU serializes to at most 1500 bytes.
C6_SizeBoundary ==
    /\ SerializedLen(tlvs) <= 1500
    /\ (op = "append" /\ bytes_of(arg).err = "none") =>
          LET total == SerializedLen(pre) + Len(bytes_of(arg).bytes)
          IN  /\ total >= 1501 => result /= "none"
              /\ (total = 1500 /\ arg.type \notin Mandatory
                    /\ arg.type /= END_OF_LLDPDU /\ Len(pre) >= 3)
                 => result = "none"

\* an LLDPDU of exactly 1500 bytes has refused one more TLV
C6_Witness ==
    /\ SerializedLen(tlvs) = 1500
    /\ op = "append" /\ result = "ValueError"

\* what C7 says complete() is
IsComplete(s) ==
    /\ Len(s) >= 4
    /\ s[1].type = CHASSIS_ID
    /\ s[2].type = PORT_ID
    /\ s[3].type = TTL
    /\ s[Len(s)].type = END_OF_LLDPDU

\* lists of at most 4 TLVs told apart by type alone
TypeLists ==
    LET T == {[type |-> t] : t \in {END_OF_LLDPDU, CHASSIS_ID, PORT_ID, TTL,
                                   PORT_DESCRIPTION}}
    IN  UNION {[1..n -> T] : n \in 0..4}

----------------------------------------------------------------------------
(* Properties of LLDPDU.from_bytes *)

\* the TLVs of the input are whole and none of them is an EndOfLLDPDU
RECURSIVE WholeNoEnd(_)
WholeNoEnd(d) ==
    \/ Len(d) = 0
    \/ /\ Len(d) >= 2
       /\ HeaderType(d) \in KnownTypes \ {END_OF_LLDPDU}
       /\ Len(d) >= 2 + d[2]
       /\ d[1] % 2 = 0
       /\ WholeNoEnd(SliceFrom(d, 2 + d[2]))

\* C8: from_bytes applied to a whole number of well-formed TLVs with no
\* EndOfLLDPDU among them, the empty input included, does not fail: it
\* returns an LLDPDU holding the TLVs decoded so far.
C8_ExhaustedInputReturns ==
    (ppc = "done" /\ WholeNoEnd(data)) =>
        /\ pres.err = "none"
        /\ Len(pres.tlvs) = Len(ptlvs)

----------------------------------------------------------------------------
(* Properties of the agent *)

\* the frame passed both filters of run()
Qualifies(f) == ~WrongEtherType(f) /\ ~WrongDestination(f)

\* C9: a malformed inbound frame is never fatal to the agent: after a
\* qualifying LLDP frame whose LLDPDU fails to parse, run() has not ended
\* with the exception and its socket is open.
C9_MalformedFrameNotFatal ==
    (/\ Len(frame) > 0
     /\ Qualifies(frame)
     /\ LLDPDU_from_bytes(SliceFrom(frame, 14)).err /= "none")
        => (apc /= "raised" /\ sockOpen)

\* C10: a received frame whose source MAC, bytes 6-11, is the agent's own
\* mac_address is never parsed and never logged.
C10_OwnFramesNotParsed ==
    \A i \in 1..Len(handed) : Slice(handed[i], 6, 12) /= LocalMac

\* the frame bears the LLDP EtherType and one of the three LLDP destinations
LLDPFrame(f) ==
    /\ Len(f) >= 14
    /\ <<f[13], f[14]>> = <<136, 204>>
    /\ <<f[1], f[2], f[3], f[4], f[5]>> = <<1, 128, 194, 0, 0>>
    /\ f[6] \in {0, 3, 14}

\* C11: a received frame whose EtherType is not 0x88CC, or whose destination
\* is none of 01:80:C2:00:00:00, :03, :0E, is never parsed or logged and
\* raises no error, whatever its other bytes are.
C11_OtherFramesIgnored ==
    /\ \A i \in 1..Len(handed) : LLDPFrame(handed[i])
    /\ Len(log) <= Len(handed)
    /\ (Len(frame) > 0 /\ ~LLDPFrame(frame)) =>
          /\ exc = "none"
          /\ apc /= "raised"
          /\ apc /= "done" => sockOpen

\* a frame with the LLDP EtherType and the broadcast destination was read
\* and the loop goes on
C11_Witness ==
    /\ Len(frame) > 14
    /\ <<frame[13], frame[14]>> = <<136, 204>>
    /\ frame[1] = 255
    /\ apc = "select"
    /\ handed = <<>>
    /\ sockOpen

\* C12: for a qualifying frame, the bytes handed to the LLDPDU parser are
\* exactly the frame's bytes from offset 14 to its end, unchanged.
C12_PayloadFromOffset14 ==
    /\ Len(parsed) = Len(handed)
    /\ \A i \in 1..Len(parsed) :
          /\ Len(parsed[i]) = Len(handed[i]) - 14
          /\ \A k \in 1..Len(parsed[i]) : parsed[i][k] = handed[i][14 + k]

\* a qualifying frame with an LLDPDU of 22 bytes was handed to the parser
C12_Witness ==
    /\ Len(handed) = 1
    /\ LLDPFrame(handed[1])
    /\ Len(handed[1]) = 36
    /\ Len(parsed[1]) = 22

----------------------------------------------------------------------------
(* More properties of LLDPDU.from_bytes *)

\* the order append keeps, told by the types alone: ChassisId first and only
\* first, PortId second and only second, Ttl third and only third, an
\* EndOfLLDPDU never before the fourth place nor next after another
OrderRules(s) ==
    \A i \in 1..Len(s) :
        /\ s[i].type = CHASSIS_ID <=> i = 1
        /\ s[i].type = PORT_ID <=> i = 2
        /\ s[i].type = TTL <=> i = 3
        /\ (s[i].type = END_OF_LLDPDU /\ i > 1) =>
              s[i - 1].type /= END_OF_LLDPDU

\* C13: no LLDPDU is built without the checks of append: what from_bytes
\* hands to the constructor LLDPDU(*tlvs) comes back only if it keeps the
\* order and the size append demands, and from_bytes fails when the decoded
\* TLVs break them (a PortId first, more than 1500 bytes of TLVs).
C13_NoBypass ==
    (ppc = "done" /\ iters = Len(ptlvs) /\ ~notEnd) =>
        /\ pres.err = "none" =>
              /\ pres.tlvs = ptlvs
              /\ OrderRules(pres.tlvs)
              /\ LLDPDU_bytes(pres.tlvs).err = "none"
              /\ SerializedLen(pres.tlvs) <= 1500
        /\ ~OrderRules(ptlvs) => pres.err /= "none"
        /\ currentID > 1500 => pres.err /= "none"

\* from_bytes decoded [PortId, EndOfLLDPDU] and the constructor refused it
C13_Witness ==
    /\ ppc = "done" /\ ~notEnd
    /\ Len(ptlvs) = 2 /\ ptlvs[1].type = PORT_ID
    /\ ptlvs[2].type = END_OF_LLDPDU
    /\ pres.err = "ValueError"

\* the byte at the parse offset is a header of a type from_bytes does not know
UnknownHeader ==
    /\ currentID < Len(data)
    /\ data[currentID + 1] \div 2 \notin ((0..8) \cup {127})

\* C14: from_bytes fails with an unknown-type error as soon as it meets a
\* TLV header whose type code is outside {0,...,8,127}, whatever bytes
\* follow that header, and returns no LLDPDU.
C14_UnknownTypeFails ==
    [][(ppc = "loop" /\ UnknownHeader) =>
           (ppc' = "done" /\ pres'.err = "ValueError" /\ pres'.tlvs = <<>>)]_vars

\* a header of type 9 was met after two TLVs, with bytes behind it
C14_Witness ==
    /\ ppc = "done" /\ pres.err = "ValueError"
    /\ Len(ptlvs) = 2 /\ iters = 3
    /\ UnknownHeader /\ data[currentID + 1] = 18
    /\ Len(data) > currentID + 2

\* the offset behind the first k TLVs of d, each as long as its 9-bit header
\* length says; Len(d) + 1 when d ends before that
RECURSIVE Offset9(_, _)
Offset9(d, k) ==
    IF k = 0 THEN 0
    ELSE LET o == Offset9(d, k - 1)
         IN  IF o + 2 > Len(d) THEN Len(d) + 1
             ELSE o + 2 + (d[o + 1] % 2) * 256 + d[o + 2]

\* C15: at each parse step from_bytes takes the TLV length L as the full
\* 9-bit header length and continues at offset + 2 + L, for L >= 256 too.
C15_NineBitLength ==
    ppc \in {"loop", "construct"} => currentID = Offset9(data, iters)

\* C16: from_bytes stops at the first EndOfLLDPDU TLV: bytes after it in the
\* input are not decoded and cause no failure, and the returned LLDPDU ends
\* with that TLV.
C16_StopsAtFirstEnd ==
    (/\ ppc = "done" /\ ~notEnd
     /\ IsComplete(ptlvs) /\ OrderRules(ptlvs)
     /\ currentID < Len(data) /\ currentID <= 1500)
        => /\ pres.err = "none"
           /\ Len(pres.tlvs) = Len(ptlvs)
           /\ pres.tlvs[Len(pres.tlvs)].type = END_OF_LLDPDU

\* C17: from_bytes(bytes(pdu)) of the complete LLDPDU [ChassisId(MAC_ADDRESS,
\* 02:04:df:88:a2:b4), PortId(INTERFACE_NAME, "eth0"), Ttl(60), EndOfLLDPDU]
\* succeeds, is complete, and has the same TLVs in the same order.
C17_RoundTrip ==
    LET pdu == <<TheChassis, ThePort, TheTtl, EndOfLLDPDUTLV>>
    IN  (ppc = "done" /\ data = LLDPDU_bytes(pdu).bytes) =>
            /\ pres.err = "none"
            /\ complete(pres.tlvs)
            /\ Len(pres.tlvs) = 4
            /\ \A i \in 1..4 : pres.tlvs[i].type = pdu[i].type
            /\ \A i \in 1..3 : pres.tlvs[i].value = pdu[i].value

----------------------------------------------------------------------------
(* More properties of the container *)

\* C18: a successful append puts the new TLV at the end and changes nothing
\* else: the length grows by exactly one and every earlier element keeps its
\* index, type and value; no operation removes, reorders or replaces one.
C18_AppendAtEnd ==
    /\ (op = "append" /\ result = "none") =>
          /\ Len(tlvs) = Len(pre) + 1
          /\ tlvs[Len(tlvs)] = arg
    /\ op /= "init" =>
          /\ Len(tlvs) >= Len(pre)
          /\ \A i \in 1..Len(pre) : tlvs[i] = pre[i]

\* a TLV was appended to an LLDPDU that held five
C18_Witness ==
    /\ op = "append" /\ result = "none"
    /\ Len(pre) = 5 /\ Len(tlvs) = 6
    /\ arg.type = SYSTEM_NAME

----------------------------------------------------------------------------
(* Properties of the TLV codecs *)

\* C19: for every TLV variant and every payload length L the variant can
\* take, the encoded header has first byte (type_code << 1) | (L >> 8) and
\* second byte L mod 256.
C19_HeaderLayout ==
    (kpc /= "made" /\ cenc.err = "none") =>
        LET L == Len(cenc.bytes) - 2
        IN  /\ cenc.bytes[1] = ctlv.type * 2 + L \div 256
            /\ cenc.bytes[2] = L % 256

\* C20: for every opaque value of 0 to 507 bytes, encoding an
\* OrganizationallySpecific TLV succeeds and produces a header with type 127
\* and length equal to the value size plus 4, followed by OUI, subtype and
\* value unchanged.
C20_OrgEncodes ==
    (kpc /= "made" /\ ctlv.type = ORGANIZATIONALLY_SPECIFIC
        /\ Len(ctlv.value) <= 507) =>
        LET L == Len(ctlv.value) + 4
        IN  /\ cenc.err = "none"
            /\ cenc.bytes
                  = <<127 * 2 + L \div 256, L % 256>> \o ctlv.oui
                    \o ctlv.subtype \o ctlv.value

\* v == w in Python for two TLVs, field by field; an IntEnum member equals
\* the int of its value
FieldsEqual(v, w) ==
    /\ v.type = w.type
    /\ CASE v.type \in {CHASSIS_ID, PORT_ID} ->
              /\ v.subtype.value = w.subtype.value
              /\ v.value = w.value
         [] v.type = SYSTEM_CAPABILITIES ->
              /\ v.supported_int = w.supported_int
              /\ v.enabled_int = w.enabled_int
         [] v.type = MANAGEMENT_ADDRESS ->
              /\ v.value = w.value
              /\ v.subtype.value = w.subtype.value
              /\ w.ifnmbr.isint
              /\ v.ifnmbr.n = w.ifnmbr.n
              /\ v.oid = w.oid
         [] v.type = ORGANIZATIONALLY_SPECIFIC ->
              /\ v.oui = w.oui
              /\ v.subtype = w.subtype
              /\ v.value = w.value
         [] v.type = END_OF_LLDPDU -> TRUE
         [] OTHER -> v.value = w.value

\* C25: for every TLV variant and every valid value v, from_bytes(bytes(v))
\* succeeds and yields a TLV equal to v field by field.
C25_DecodeOfEncode ==
    kpc = "decoded" =>
        /\ cdec.err = "none"
        /\ FieldsEqual(ctlv, cdec.tlv)

\* C27: for every TLV instance, len(tlv) equals the number of bytes its
\* encoding carries after the 2-byte header; for ManagementAddress it
\* follows the actual address and OID sizes.
C27_LenIsPayloadSize ==
    (kpc /= "made" /\ cenc.err = "none") =>
        len_of(ctlv) = Len(cenc.bytes) - 2

\* a ManagementAddress TLV with an OID of 128 bytes has been encoded
C27_Witness ==
    /\ kpc = "encoded" /\ cenc.err = "none"
    /\ ctlv.type = MANAGEMENT_ADDRESS
    /\ ~ctlv.oid.none /\ Len(ctlv.oid.bytes) = 128
    /\ Len(cenc.bytes) = 154

----------------------------------------------------------------------------
(* Properties of the decoders *)

\* a from_bytes() call on bytes has returned or raised
DecodeDone == dkind = "bytes" /\ dpc /= "start"

\* C21: for every TLV variant, from_bytes fails when the type code in the
\* header of the given bytes differs from the variant's own type code.
C21_TypeMismatchFails ==
    (DecodeDone /\ Len(dbytes) >= 1 /\ HeaderType(dbytes) /= dvariant) =>
        ddec.err /= "none"

\* the bytes are a TLV of variant v with the network-address subtype s
NetworkAddressBytes(v, s) ==
    /\ dvariant = v
    /\ Len(dbytes) >= 4
    /\ HeaderType(dbytes) = v
    /\ dbytes[3] = s

\* C22: decoding a ChassisId or PortId TLV of the network-address subtype
\* fails whenever the address-family prefix byte is neither 1 nor 2; with
\* prefix 1 the address is exactly 4 bytes and with prefix 2 exactly 16.
C22_NetworkAddressFamilies ==
    (DecodeDone /\ (\/ NetworkAddressBytes(CHASSIS_ID,
                                           ChassisId_NETWORK_ADDRESS)
                    \/ NetworkAddressBytes(PORT_ID, PortId_NETWORK_ADDRESS))
        /\ ddec.err = "none") =>
        \/ dbytes[4] = 1 /\ Len(dbytes) - 4 = 4
        \/ dbytes[4] = 2 /\ Len(dbytes) - 4 = 16

\* a & b of two bitmaps below 2^k
RECURSIVE BitAnd(_, _, _)
BitAnd(a, b, k) ==
    IF k = 0 THEN 0
    ELSE (a % 2) * (b % 2) + 2 * BitAnd(a \div 2, b \div 2, k - 1)

\* the two bitmaps a SystemCapabilities TLV is asked for: the constructor's
\* arguments, or the two fields of well-formed bytes
AskedBitmaps ==
    IF dkind = "args" THEN dargs
    ELSE <<int_from_bytes(Slice(dbytes, 2, 4)),
           int_from_bytes(Slice(dbytes, 4, 6))>>

AsksCapabilities ==
    /\ dpc /= "start"
    /\ dvariant = SYSTEM_CAPABILITIES
    /\ \/ dkind = "args"
       \/ dkind = "bytes" /\ Len(dbytes) = 6 /\ dbytes[1] = 14 /\ dbytes[2] = 4

\* C23: the SystemCapabilities constructor and from_bytes both fail when
\* (enabled & supported) != enabled and succeed otherwise, so no instance
\* has an enabled bit that its supported bitmap lacks.
C23_EnabledWithinSupported ==
    AsksCapabilities =>
        LET su == AskedBitmaps[1]
            en == AskedBitmaps[2]
        IN  /\ ddec.err = "none" <=> BitAnd(en, su, 16) = en
            /\ ddec.err /= "none" => ddec.err = "ValueError"
            /\ ddec.err = "none" =>
                  /\ ddec.tlv.supported_int = su
                  /\ ddec.tlv.enabled_int = en

\* the constructor refused supported = 0b01, enabled = 0b10
C23_Witness ==
    /\ dkind = "args" /\ dpc = "made"
    /\ dargs = <<1, 2>>
    /\ ddec.err = "ValueError"

\* C24: ManagementAddress decoding fails as truncated input whenever the
\* declared management-address string length or the declared OID string
\* length points past the bytes available, and the decoded OID has exactly
\* the declared OID length.
C24_ManagementLengths ==
    (DecodeDone /\ dvariant = MANAGEMENT_ADDRESS /\ Len(dbytes) >= 3
        /\ HeaderType(dbytes) = MANAGEMENT_ADDRESS) =>
        LET strlen == dbytes[3]
            \* the OID string length is the byte behind the address string,
            \* the numbering subtype and the 4-byte interface number
            oidAt == 3 + strlen + 1 + 4 + 1
        IN  /\ Len(dbytes) < oidAt => ddec.err /= "none"
            /\ (Len(dbytes) >= oidAt /\ Len(dbytes) < oidAt + dbytes[oidAt])
                  => ddec.err /= "none"
            /\ ddec.err = "none" =>
                  (IF ddec.tlv.oid.none THEN 0 ELSE Len(ddec.tlv.oid.bytes))
                      = dbytes[oidAt]

\* C26: for every TLV variant and every byte string b that from_bytes
\* accepts, bytes(from_bytes(b)) succeeds and equals b.
C26_ReencodeEqual ==
    (dkind = "bytes" /\ dpc = "encoded") =>
        /\ denc.err = "none"
        /\ denc.bytes = dbytes

\* the decoded TLV is a ChassisId or PortId of the MAC-address subtype
DecodedMac ==
    /\ DecodeDone
    /\ ddec.err = "none"
    /\ \/ ddec.tlv.type = CHASSIS_ID
          /\ ddec.tlv.subtype.value = ChassisId_MAC_ADDRESS
       \/ ddec.tlv.type = PORT_ID
          /\ ddec.tlv.subtype.value = PortId_MAC_ADDRESS

\* C29: a ChassisId or PortId TLV of the MAC-address subtype obtained by
\* decoding always carries exactly 6 address bytes.
C29_MacSixBytes ==
    DecodedMac => Len(ddec.tlv.value) = 6

----------------------------------------------------------------------------
(* Properties of the failures and of the announce timer *)

\* the error append() gives for an ordering violation: a Ttl TLV offered
\* to an empty LLDPDU
OrderingRejection == append(<<>>, TheTtl).err

\* C28: failures are distinguishable by category: the error value of an
\* append rejected for exceeding 1500 bytes tells the caller that it is not
\* an ordering violation.
C28_SizeUnlikeOrdering ==
    (op = "append" /\ result /= "none"
        /\ SerializedLen(pre) + Len(bytes_of(arg).bytes) > 1500) =>
        result /= OrderingRejection

\* the loop runs and more than announce_interval has passed since the last
\* announcement
Overdue ==
    /\ apc \in {"loop", "select", "announce"}
    /\ now - t_previous > Interval

\* C30: while the agent loop runs, announce() is eventually called once
\* more than announce_interval has passed since the last announcement,
\* whatever frames arrive.
C30_AnnounceEventually ==
    Overdue ~> (now = t_previous \/ apc \in {"done", "raised"})

----------------------------------------------------------------------------
(* Properties of the agent's loop *)

\* the loop stands at its test with at least one pass behind it: select()
\* has timed out or a frame has been read
PassDone ==
    /\ apc = "loop"
    /\ (now > 0 \/ frame /= <<>>)

\* C31: with run_once = True the main loop stops after its first pass,
\* whether that pass received a valid LLDP frame, a non-LLDP frame, or timed
\* out with no frame.
C31_RunOnceStops ==
    [][(run_once /\ PassDone) => apc' = "done"]_vars

\* the frame of an agent with MAC 02:04:df:88:a2:b4 on "eth0", byte by byte:
\* destination, source, EtherType, ChassisId, PortId, Ttl
AnnouncedFrame ==
    <<1, 128, 194, 0, 0, 14>> \o <<2, 4, 223, 136, 162, 180>> \o <<136, 204>>
        \o <<2, 7, 4, 2, 4, 223, 136, 162, 180>>
        \o <<4, 5, 5, 101, 116, 104, 48>>
        \o <<6, 2, 0, 60>>

\* C32: every frame sent by announce() consists of destination
\* 01:80:c2:00:00:0e, the agent's own MAC as source, EtherType 0x88CC and
\* the serialization of ChassisId(MAC_ADDRESS, local MAC),
\* PortId(INTERFACE_NAME, interface name) and Ttl(60), in this order;
\* announce() sends exactly one frame per call.
C32_AnnounceFrame ==
    /\ [](\A i \in 1..Len(sent) : sent[i] = AnnouncedFrame)
    /\ [][(sent' /= sent \/ t_previous' /= t_previous) =>
             /\ Len(sent') = Len(sent) + 1
             /\ \A i \in 1..Len(sent) : sent'[i] = sent[i]]_vars

\* announce() has been called twice
C32_Witness ==
    /\ Len(sent) = 2
    /\ Len(sent[2]) = 34

----------------------------------------------------------------------------
(* More properties of the container *)

----------------------------------------------------------------------------
(* More properties of the agent *)

\* the frame announce() of an agent with MAC 02:04:df:88:a2:b5 sends
NeighbourAnnouncement ==
    NearestBridge \o NeighbourMac \o LLDP_ETHERTYPE
        \o LLDPDU_bytes(
              LLDPDU_init(<<ChassisIdTLV(EnumMember(ChassisId_MAC_ADDRESS),
                                         NeighbourMac),
                            PortIdTLV(EnumMember(PortId_INTERFACE_NAME),
                                      InterfaceName),
                            TTLTLV(60)>>).tlvs).bytes

\* C34: a frame produced by announce() of another agent passes the frame
\* filter, is parsed by LLDPDU.from_bytes without error and is logged.
C34_NeighbourAnnouncementLogged ==
    frame = NeighbourAnnouncement =>
        /\ Len(handed) >= 1 /\ handed[Len(handed)] = frame
        /\ exc = "none"
        /\ apc /= "raised"
        /\ Len(log) = 1

----------------------------------------------------------------------------
(* Termination of LLDPDU.from_bytes *)

\* C35: LLDPDU.from_bytes terminates on every finite input: the parse
\* offset increases by at least 2 at every loop iteration that does not
\* raise, so the loop runs at most len(data)/2 + 1 times.
C35_ParseTerminates ==
    /\ [](iters <= Len(data) \div 2 + 1)
    /\ [](ppc = "loop" => 2 * iters <= currentID)
    /\ [][(iters' /= iters /\ ppc' /= "done") =>
             currentID' >= currentID + 2]_vars

\* two TLVs of two bytes each were read and the third pass found the input
\* exhausted: 4 / 2 + 1 passes
C35_Witness ==
    /\ data = <<8, 0, 8, 0>>
    /\ iters = 3
    /\ ppc = "done"
    /\ pres.err = "IndexError"

----------------------------------------------------------------------------
(* Properties of the agent's socket and timer *)

\* run() has ended: the loop was left, an interrupt was caught or an
\* exception went out
Ended == apc \in {"done", "raised"}

\* C36: whenever run() ends, by normal loop exit, by KeyboardInterrupt or
\* by an exception raised while receiving, parsing or announcing, the
\* socket has been closed, and no receive or send is performed on the
\* socket after it is closed.
C36_SocketClosedAtEnd ==
    /\ [](Ended <=> ~sockOpen)
    /\ [][~sockOpen =>
             /\ frame' = frame
             /\ handed' = handed
             /\ sent' = sent
             /\ ~sockOpen']_vars

\* an OSError went out of run() with the announcement overdue, and the
\* socket is closed
C36_Witness ==
    /\ apc = "raised"
    /\ exc = "OSError"
    /\ ~sockOpen
    /\ now - t_previous > Interval

\* C37: the agent never announces more often than its interval: run() calls
\* announce() at most once per loop iteration, each call comes more than
\* announce_interval after the timer reference, and the timer reference is
\* reset only when an announcement is sent, to the time of that
\* announcement.
C37_NotMoreOften ==
    [][/\ t_previous' /= t_previous => sent' /= sent
       /\ sent' /= sent =>
             /\ Len(sent') = Len(sent) + 1
             /\ now' - t_previous > Interval
             /\ t_previous' = now'
             /\ apc = "announce" /\ apc' = "loop"]_vars

\* two announcements, at ticks 3 and 6
C37_Witness ==
    /\ Len(sent) = 2
    /\ t_previous = 6
    /\ now = 6

====
